---- MODULE Spec2Model ----
(***************************************************************************)
(* Hydra Ray launcher plugin.                                              *)
(*                                                                         *)
(* Two state machines share this module:                                    *)
(*   SpecRemote  the remote entry point launch_jobs (_remote_invoke.py)     *)
(*               together with the Ray tasks it submits;                    *)
(*   SpecLocal   the cluster control wrapper (_launcher_util.py): the       *)
(*               ray_* operations, each spawning the ray CLI through        *)
(*               _run_command, and the ray_tmp_dir context manager.         *)
(*                                                                         *)
(* A Python str is a sequence of one-character strings, a bytes object a    *)
(* sequence of byte values, a list of str a sequence of such sequences.     *)
(***************************************************************************)
EXTENDS Integers, Sequences, FiniteSets, TLC

VARIABLES
    \* ---- remote side: launch_jobs --------------------------------------
    job_spec_file,   \* <temp_dir>/job_spec.pkl: [exists, data]
    temp_dir_abs,    \* sys.argv[1] is an absolute path
    pc,              \* position of launch_jobs
    err,             \* the error launch_jobs died with ("" while none)
    sweep_configs,   \* job_spec["sweep_configs"], ids assigned in place
    instance_id,     \* [set, value]
    lookups,         \* number of metadata endpoint requests made
    metadata,        \* the metadata endpoint's answer: [asked, ok]
    sweep_dir,       \* "None" or "sweep"
    cwd,             \* "start" or "sweep"
    ray_initialized, \* ray.is_initialized()
    runs,            \* the ObjectIDs kept by launch_jobs
    tasks,           \* Ray's task table: ObjectID -> [cfg, state]
    finish_order,    \* ObjectIDs in the order the tasks finished
    result,          \* the list built by the comprehension of line 62
    returns_file,    \* returns.pkl: [exists, dir, data]
    returns_writes,  \* number of times returns.pkl was written
    \* ---- local side: cluster control wrapper ---------------------------
    lpc,             \* "idle", or "body" inside a with ray_tmp_dir block
    log,             \* events: spawned argument lists, yields, body ends
    ctx,             \* the frame of the latest ray_tmp_dir call
    last             \* the latest completed wrapper operation

remote_vars == <<job_spec_file, temp_dir_abs, pc, err, sweep_configs,
                 instance_id, lookups, metadata, sweep_dir, cwd, ray_initialized,
                 runs, tasks, finish_order, result, returns_file,
                 returns_writes>>
local_vars == <<lpc, log, ctx, last>>
vars == <<remote_vars, local_vars>>

-----------------------------------------------------------------------------
\* Bounds

MaxJobs == 3
MaxOps == 2

-----------------------------------------------------------------------------
\* Python strings and bytes

ByteSet == {10, 32, 47, 49, 95, 105, 116}

Chr(b) ==
    CASE b = 10 -> "\n"
      [] b = 32 -> " "
      [] b = 47 -> "/"
      [] b = 49 -> "1"
      [] b = 95 -> "_"
      [] b = 105 -> "i"
      [] b = 116 -> "t"

\* bytes.decode()
Decode(bytes) == [i \in 1..Len(bytes) |-> Chr(bytes[i])]

Whitespace == {" ", "\n", "\t"}

RECURSIVE LStrip(_)
LStrip(s) ==
    IF s # <<>> /\ Head(s) \in Whitespace THEN LStrip(Tail(s)) ELSE s

RECURSIVE RStrip(_)
RStrip(s) ==
    IF s # <<>> /\ s[Len(s)] \in Whitespace
    THEN RStrip(SubSeq(s, 1, Len(s) - 1))
    ELSE s

\* str.strip()
Strip(s) == RStrip(LStrip(s))

Digit(d) ==
    CASE d = 0 -> "0" [] d = 1 -> "1" [] d = 2 -> "2" [] d = 3 -> "3"
      [] d = 4 -> "4" [] d = 5 -> "5" [] d = 6 -> "6" [] d = 7 -> "7"
      [] d = 8 -> "8" [] d = 9 -> "9"

\* str(n) of a non-negative int, as the f-string formats hydra.job.num
RECURSIVE Str(_)
Str(n) ==
    IF n < 10 THEN <<Digit(n)>> ELSE Str(n \div 10) \o <<Digit(n % 10)>>

\* s occurs in t as a substring
Contains(t, s) ==
    \E i \in 0..(Len(t) - Len(s)) : SubSeq(t, i + 1, i + Len(s)) = s

-----------------------------------------------------------------------------
\* Remote side: launch_jobs

JobNums == {0, 1, 10}
Overrides == {"a", "b"}

NoId == [set |-> FALSE, value |-> <<>>]

SweepConfig == [num : JobNums, overrides : Overrides, id : {NoId}]

SeqsUpTo(S, n) == UNION {[1..m -> S] : m \in 0..n}

\* Answers of http://169.254.169.254/latest/meta-data/instance-id
MetadataResponses ==
    { [ok |-> FALSE, body |-> <<>>],
      [ok |-> TRUE, body |-> <<105>>],
      [ok |-> TRUE, body |-> <<105, 95, 49>>] }

\* variant of OpenJobSpec: a missing file reads as an empty batch
OpenJobSpecTolerant(file) == [raised |-> FALSE, data |-> file.data]
\* open(os.path.join(temp_dir, JOB_SPEC_PICKLE), "rb") and cloudpickle.load
OpenJobSpec(file) ==
    IF file.exists
    THEN [raised |-> FALSE, data |-> file.data]
    ELSE [raised |-> TRUE, data |-> <<>>]

\* variant of get_instance_id: a failed request yields the empty id
get_instance_id_swallow(resp) == [raised |-> FALSE, value |-> Decode(resp.body)]
\* urllib.request.urlopen(...).read().decode()
get_instance_id(resp) ==
    IF resp.ok
    THEN [raised |-> FALSE, value |-> Decode(resp.body)]
    ELSE [raised |-> TRUE, value |-> <<>>]

\* variant of JobId: the job num is left out
JobIdNoNum(iid, num) == iid \o <<"_">>
\* f"{instance_id}_{sweep_config.hydra.job.num}"
JobId(iid, num) == iid \o <<"_">> \o Str(num)

\* variant of RunsAppend: runs.insert(0, ray_obj)
RunsPrepend(rs, oid) == <<oid>> \o rs
\* runs.append(ray_obj)
RunsAppend(rs, oid) == Append(rs, oid)

\* variant of Collected: the collection stops after the first result
CollectedEarly(res, rs) == Len(res) >= 1 \/ Len(rs) = 0
\* the comprehension of line 62 has consumed every element of runs
Collected(res, rs) == Len(res) = Len(rs)

\* os.path.join(tmp_dir, JOB_RETURN_PICKLE), resolved against the cwd
ReturnsDir(abs, dir) ==
    IF abs \/ dir = "start" THEN "temp_dir" ELSE "sweep/temp_dir"

\* the JobReturn a finished task's object holds
JobReturnOf(oid) == [task |-> oid, cfg |-> tasks[oid].cfg]

N == Len(sweep_configs)
\* index of the sweep_config the for loop is at
Cur == Len(runs) + 1

InitRemote ==
    /\ job_spec_file \in
         {[exists |-> FALSE, data |-> <<>>]} \cup
         {[exists |-> TRUE, data |-> d] : d \in SeqsUpTo(SweepConfig, MaxJobs)}
    /\ temp_dir_abs \in BOOLEAN
    /\ pc = "open"
    /\ err = ""
    /\ sweep_configs = <<>>
    /\ instance_id = NoId
    /\ lookups = 0
    /\ metadata = [asked |-> FALSE, ok |-> FALSE]
    /\ sweep_dir = "None"
    /\ cwd = "start"
    /\ ray_initialized = FALSE
    /\ runs = <<>>
    /\ tasks = <<>>
    /\ finish_order = <<>>
    /\ result = <<>>
    /\ returns_file = [exists |-> FALSE, dir |-> "", data |-> <<>>]
    /\ returns_writes = 0

\* lines 29-34: open the spec file and unpickle it
launch_jobs_open ==
    /\ pc = "open"
    /\ LET f == OpenJobSpec(job_spec_file) IN
         IF f.raised
         THEN /\ pc' = "failed"
              /\ err' = "FileNotFoundError"
              /\ UNCHANGED sweep_configs
         ELSE /\ pc' = "lookup"
              /\ sweep_configs' = f.data
              /\ UNCHANGED err
    /\ UNCHANGED <<job_spec_file, temp_dir_abs, instance_id, lookups, metadata,
                   sweep_dir, cwd, ray_initialized, runs, tasks,
                   finish_order, result, returns_file, returns_writes>>
    /\ UNCHANGED local_vars

\* line 36: instance_id = _get_instance_id()
launch_jobs_get_instance_id ==
    /\ pc = "lookup"
    /\ \E resp \in MetadataResponses :
         LET r == get_instance_id(resp) IN
           /\ lookups' = lookups + 1
           /\ metadata' = [asked |-> TRUE, ok |-> resp.ok]
           /\ IF r.raised
              THEN /\ pc' = "failed"
                   /\ err' = "URLError"
                   /\ UNCHANGED instance_id
              ELSE /\ pc' = "loop"
                   /\ instance_id' = [set |-> TRUE, value |-> r.value]
                   /\ UNCHANGED err
    /\ UNCHANGED <<job_spec_file, temp_dir_abs, sweep_configs, sweep_dir,
                   cwd, ray_initialized, runs, tasks, finish_order, result,
                   returns_file, returns_writes>>
    /\ UNCHANGED local_vars

\* line 40: the for statement takes the next sweep_config or ends
launch_jobs_for ==
    /\ pc = "loop"
    /\ pc' = IF Cur <= N THEN "assign" ELSE "collect"
    /\ UNCHANGED <<job_spec_file, temp_dir_abs, err, sweep_configs,
                   instance_id, lookups, metadata, sweep_dir, cwd, ray_initialized,
                   runs, tasks, finish_order, result, returns_file,
                   returns_writes>>
    /\ UNCHANGED local_vars

\* lines 41-49: assign hydra.job.id, restore the singleton state
launch_jobs_assign_id ==
    /\ pc = "assign"
    /\ sweep_configs' =
         [sweep_configs EXCEPT ![Cur].id =
            [set |-> TRUE,
             value |-> JobId(instance_id.value, sweep_configs[Cur].num)]]
    /\ pc' = "sweep_dir"
    /\ UNCHANGED <<job_spec_file, temp_dir_abs, err, instance_id, lookups, metadata,
                   sweep_dir, cwd, ray_initialized, runs, tasks,
                   finish_order, result, returns_file, returns_writes>>
    /\ UNCHANGED local_vars

\* lines 51-54: the first iteration creates and enters the sweep dir
launch_jobs_sweep_dir ==
    /\ pc = "sweep_dir"
    /\ IF sweep_dir = "None"
       THEN /\ sweep_dir' = "sweep"
            /\ cwd' = "sweep"
       ELSE UNCHANGED <<sweep_dir, cwd>>
    /\ pc' = "start_ray"
    /\ UNCHANGED <<job_spec_file, temp_dir_abs, err, sweep_configs,
                   instance_id, lookups, metadata, ray_initialized, runs, tasks,
                   finish_order, result, returns_file, returns_writes>>
    /\ UNCHANGED local_vars

\* line 56 and start_ray
start_ray ==
    /\ pc = "start_ray"
    /\ IF ~ray_initialized
       THEN ray_initialized' = TRUE
       ELSE UNCHANGED ray_initialized
    /\ pc' = "submit"
    /\ UNCHANGED <<job_spec_file, temp_dir_abs, err, sweep_configs,
                   instance_id, lookups, metadata, sweep_dir, cwd, runs, tasks,
                   finish_order, result, returns_file, returns_writes>>
    /\ UNCHANGED local_vars

\* lines 57-60 and launch_job_on_ray: the arguments are serialized at the
\* .remote() call, the new ObjectID is appended to runs
launch_job_on_ray ==
    /\ pc = "submit"
    /\ LET oid == Len(tasks) + 1
           cfg == sweep_configs[Cur] IN
         /\ tasks' = Append(tasks, [cfg |-> cfg, state |-> "running"])
         /\ runs' = RunsAppend(runs, oid)
    /\ pc' = "loop"
    /\ UNCHANGED <<job_spec_file, temp_dir_abs, err, sweep_configs,
                   instance_id, lookups, metadata, sweep_dir, cwd, ray_initialized,
                   finish_order, result, returns_file, returns_writes>>
    /\ UNCHANGED local_vars

\* _run_job on a Ray worker: returns its JobReturn or raises
_run_job ==
    /\ \E oid \in 1..Len(tasks) :
         /\ tasks[oid].state = "running"
         /\ \E outcome \in {"returned", "raised"} :
              tasks' = [tasks EXCEPT ![oid].state = outcome]
         /\ finish_order' = Append(finish_order, oid)
    /\ UNCHANGED <<job_spec_file, temp_dir_abs, pc, err, sweep_configs,
                   instance_id, lookups, metadata, sweep_dir, cwd, ray_initialized,
                   runs, result, returns_file, returns_writes>>
    /\ UNCHANGED local_vars

\* line 62: ray.get(run) for the next run; blocks while the task runs,
\* re-raises the task's error when the task raised
launch_jobs_ray_get ==
    /\ pc = "collect"
    /\ ~Collected(result, runs)
    /\ LET oid == runs[Len(result) + 1] IN
         /\ tasks[oid].state # "running"
         /\ IF tasks[oid].state = "raised"
            THEN /\ pc' = "failed"
                 /\ err' = "RayTaskError"
                 /\ UNCHANGED result
            ELSE /\ result' = Append(result, JobReturnOf(oid))
                 /\ UNCHANGED <<pc, err>>
    /\ UNCHANGED <<job_spec_file, temp_dir_abs, sweep_configs, instance_id,
                   lookups, metadata, sweep_dir, cwd, ray_initialized, runs, tasks,
                   finish_order, returns_file, returns_writes>>
    /\ UNCHANGED local_vars

\* line 63 and _dump_job_return
dump_job_return ==
    /\ pc = "collect"
    /\ Collected(result, runs)
    /\ returns_file' = [exists |-> TRUE,
                        dir |-> ReturnsDir(temp_dir_abs, cwd),
                        data |-> result]
    /\ returns_writes' = returns_writes + 1
    /\ pc' = "done"
    /\ UNCHANGED <<job_spec_file, temp_dir_abs, err, sweep_configs,
                   instance_id, lookups, metadata, sweep_dir, cwd, ray_initialized,
                   runs, tasks, finish_order, result>>
    /\ UNCHANGED local_vars

NextRemote ==
    \/ launch_jobs_open
    \/ launch_jobs_get_instance_id
    \/ launch_jobs_for
    \/ launch_jobs_assign_id
    \/ launch_jobs_sweep_dir
    \/ start_ray
    \/ launch_job_on_ray
    \/ _run_job
    \/ launch_jobs_ray_get
    \/ dump_job_return

-----------------------------------------------------------------------------
\* Local side: the cluster control wrapper

RAY == <<"r", "a", "y">>
EXEC == <<"e", "x", "e", "c">>
DOCKER == <<"-", "-", "d", "o", "c", "k", "e", "r">>
UP == <<"u", "p">>
DOWN == <<"d", "o", "w", "n">>
DASH_Y == <<"-", "y">>
RSYNC_UP == <<"r", "s", "y", "n", "c", "-", "u", "p">>
RSYNC_DOWN == <<"r", "s", "y", "n", "c", "-", "d", "o", "w", "n">>
GET_HEAD_IP == <<"g", "e", "t", "-", "h", "e", "a", "d", "-", "i", "p">>
MKTEMP_CMD == <<"e", "c", "h", "o", " ", "$", "(", "m", "k", "t", "e", "m", "p", " ", "-", "d", ")">>
RM_RF == <<"r", "m", " ", "-", "r", "f", " ">>
MKDIR_P == <<"m", "k", "d", "i", "r", " ", "-", "p", " ">>
PYTHON == <<"p", "y", "t", "h", "o", "n", " ">>

YamlPaths == {<<"c", ".", "y", "a", "m", "l">>}
LocalDir == <<"l">>
RemoteDir == <<"/", "r">>
NewDir == <<"/", "n">>
FilePath == <<"f", ".", "p", "y">>

StdoutSet == {<<>>, <<47, 116, 10>>, <<32, 49>>}
StderrSet == {<<>>, <<116>>}

\* what the child process leaves behind: exit code, stdout, stderr
Procs == [returncode : {0, 1}, stdout : StdoutSet, stderr : StderrSet]

\* list += str extends the list by the items of the str, its characters
IAddStr(list, s) == list \o [i \in 1..Len(s) |-> <<s[i]>>]

\* variant of _run_command: a non-zero exit code raises
_run_command_checked(args, proc) ==
    [spawned |-> <<args>>,
     raised |-> proc.returncode # 0,
     out |-> Strip(Decode(proc.stdout)),
     err |-> Strip(Decode(proc.stderr))]
\* lines 68-79: _run_command, one Popen, communicate, decode and strip;
\* proc.returncode is never read
_run_command(args, proc) ==
    [spawned |-> <<args>>,
     raised |-> FALSE,
     out |-> Strip(Decode(proc.stdout)),
     err |-> Strip(Decode(proc.stderr))]

\* lines 83-84
ray_rsync_down_args(yaml_path, remote_dir, local_dir) ==
    <<RAY, RSYNC_DOWN>> \o <<yaml_path, remote_dir, local_dir>>

\* line 117
ray_rsync_up_args(yaml_path, local_dir, remote_dir) ==
    <<RAY, RSYNC_UP, yaml_path, local_dir, remote_dir>>

\* line 122
ray_down_args(yaml_path) == <<RAY, DOWN, DASH_Y, yaml_path>>

\* line 128
ray_up_args(yaml_path) == <<RAY, UP, DASH_Y, yaml_path>>

\* line 143
ray_get_head_ip_args(yaml_path) == <<RAY, GET_HEAD_IP, yaml_path>>

\* lines 91-93: the common prefix built by ray_tmp_dir
ray_tmp_dir_prefix(docker) ==
    LET args == <<RAY, EXEC>> IN
      IF docker THEN IAddStr(args, DOCKER) ELSE args

\* line 95
mktemp_args(args, yaml_path) == args \o <<yaml_path, MKTEMP_CMD>>

\* variant of rmtemp_args: the command names the config path
rmtemp_args_yaml(args, yaml_path, tmp_path) ==
    args \o <<yaml_path, RM_RF \o yaml_path>>
\* line 99
rmtemp_args(args, yaml_path, tmp_path) ==
    args \o <<yaml_path, RM_RF \o tmp_path>>

\* variant of ray_tmp_dir_exit: the yield sits in a try/finally
ray_tmp_dir_exit_finally(how, args, yaml_path, tmp_path) ==
    <<rmtemp_args(args, yaml_path, tmp_path)>>
\* lines 98-100 under @contextmanager: the argument lists ray_tmp_dir
\* spawns once the with body has ended; a body that raised has its error
\* thrown into the generator at the yield, which no try statement encloses
ray_tmp_dir_exit(how, args, yaml_path, tmp_path) ==
    IF how = "returned"
    THEN <<rmtemp_args(args, yaml_path, tmp_path)>>
    ELSE <<>>

\* lines 107-111
ray_new_dir_args(yaml_path, new_dir, docker) ==
    LET args == <<RAY, EXEC>>
        args2 == IF docker THEN IAddStr(args, DOCKER) ELSE args IN
      args2 \o <<yaml_path, MKDIR_P \o new_dir>>

\* lines 132-137
ray_exec_args(yaml_path, docker, file_path, pickle_path) ==
    LET command == PYTHON \o file_path \o <<" ">> \o pickle_path
        args == <<RAY, EXEC>>
        args2 == IF docker THEN IAddStr(args, DOCKER) ELSE args IN
      args2 \o <<yaml_path, command>>

Spawn(args) == [kind |-> "spawn", args |-> args]
Spawns(argss) == [i \in 1..Len(argss) |-> Spawn(argss[i])]

\* number of wrapper operations called so far
OpsCalled == Cardinality({i \in 1..Len(log) : log[i].kind \in {"call"}})

NoCtx == [state |-> "none", docker |-> FALSE, args |-> <<>>,
          yaml_path |-> <<>>, tmp_path |-> <<>>, mktemp_stdout |-> <<>>,
          start |-> 0, end |-> 0, error |-> "", propagated |-> ""]

NoCall == [op |-> "none", yaml_path |-> <<>>, docker |-> FALSE,
           args |-> <<>>, proc |-> [returncode |-> 0, stdout |-> <<>>,
                                    stderr |-> <<>>],
           spawns |-> 0, raised |-> FALSE, returns_none |-> TRUE,
           ret |-> <<>>]

InitLocal ==
    /\ lpc = "idle"
    /\ log = <<>>
    /\ ctx = NoCtx
    /\ last = NoCall

\* the log after an operation was called and its processes were spawned
Called(r) ==
    log \o <<[kind |-> "call", args |-> <<>>]>> \o Spawns(r.spawned)

\* the record of a completed operation; returns_out says whether the
\* operation returns out.strip() or nothing
Completed(op, yaml_path, docker, args, proc, r, returns_out) ==
    [op |-> op, yaml_path |-> yaml_path, docker |-> docker, args |-> args,
     proc |-> proc, spawns |-> Len(r.spawned), raised |-> r.raised,
     returns_none |-> ~returns_out \/ r.raised,
     ret |-> IF returns_out /\ ~r.raised THEN Strip(r.out) ELSE <<>>]

\* lines 82-86
ray_rsync_down ==
    /\ OpsCalled < MaxOps
    /\ \E y \in YamlPaths, proc \in Procs :
         LET args == ray_rsync_down_args(y, RemoteDir, LocalDir)
             r == _run_command(args, proc) IN
           /\ log' = Called(r)
           /\ last' = Completed("ray_rsync_down", y, FALSE, args, proc, r,
                                FALSE)
    /\ UNCHANGED <<lpc, ctx>>
    /\ UNCHANGED remote_vars

\* lines 116-118
ray_rsync_up ==
    /\ OpsCalled < MaxOps
    /\ \E y \in YamlPaths, proc \in Procs :
         LET args == ray_rsync_up_args(y, LocalDir, RemoteDir)
             r == _run_command(args, proc) IN
           /\ log' = Called(r)
           /\ last' = Completed("ray_rsync_up", y, FALSE, args, proc, r,
                                FALSE)
    /\ UNCHANGED <<lpc, ctx>>
    /\ UNCHANGED remote_vars

\* lines 121-123
ray_down ==
    /\ OpsCalled < MaxOps
    /\ \E y \in YamlPaths, proc \in Procs :
         LET args == ray_down_args(y)
             r == _run_command(args, proc) IN
           /\ log' = Called(r)
           /\ last' = Completed("ray_down", y, FALSE, args, proc, r, FALSE)
    /\ UNCHANGED <<lpc, ctx>>
    /\ UNCHANGED remote_vars

\* lines 126-128
ray_up ==
    /\ OpsCalled < MaxOps
    /\ \E y \in YamlPaths, proc \in Procs :
         LET args == ray_up_args(y)
             r == _run_command(args, proc) IN
           /\ log' = Called(r)
           /\ last' = Completed("ray_up", y, FALSE, args, proc, r, FALSE)
    /\ UNCHANGED <<lpc, ctx>>
    /\ UNCHANGED remote_vars

\* lines 131-139; inside a with ray_tmp_dir block the pickle path is the
\* temporary directory
ray_exec ==
    /\ OpsCalled < MaxOps
    /\ \E y \in YamlPaths, docker \in BOOLEAN, proc \in Procs :
         LET pickle_path == IF lpc = "body" THEN ctx.tmp_path ELSE RemoteDir
             args == ray_exec_args(y, docker, FilePath, pickle_path)
             r == _run_command(args, proc) IN
           /\ log' = Called(r)
           /\ last' = Completed("ray_exec", y, docker, args, proc, r, FALSE)
    /\ UNCHANGED <<lpc, ctx>>
    /\ UNCHANGED remote_vars

\* lines 142-144
_ray_get_head_ip ==
    /\ OpsCalled < MaxOps
    /\ \E y \in YamlPaths, proc \in Procs :
         LET args == ray_get_head_ip_args(y)
             r == _run_command(args, proc) IN
           /\ log' = Called(r)
           /\ last' = Completed("_ray_get_head_ip", y, FALSE, args, proc, r,
                                TRUE)
    /\ UNCHANGED <<lpc, ctx>>
    /\ UNCHANGED remote_vars

\* lines 103-113
ray_new_dir ==
    /\ OpsCalled < MaxOps
    /\ \E y \in YamlPaths, docker \in BOOLEAN, proc \in Procs :
         LET args == ray_new_dir_args(y, NewDir, docker)
             r == _run_command(args, proc) IN
           /\ log' = Called(r)
           /\ last' = Completed("ray_new_dir", y, docker, args, proc, r,
                                TRUE)
    /\ UNCHANGED <<lpc, ctx>>
    /\ UNCHANGED remote_vars

\* lines 89-97: ray_tmp_dir up to the yield, entering the with body
ray_tmp_dir ==
    /\ lpc = "idle"
    /\ OpsCalled < MaxOps
    /\ \E y \in YamlPaths, docker \in BOOLEAN, proc \in Procs :
         LET args == ray_tmp_dir_prefix(docker)
             margs == mktemp_args(args, y)
             r == _run_command(margs, proc)
             tmp_path == Strip(r.out)
             called == Called(r) IN
           IF r.raised
           THEN /\ log' = called
                /\ ctx' = [NoCtx EXCEPT !.state = "failed"]
                /\ UNCHANGED lpc
           ELSE /\ log' = Append(called,
                                 [kind |-> "yield", args |-> <<tmp_path>>])
                /\ ctx' = [state |-> "body", docker |-> docker,
                           args |-> args, yaml_path |-> y,
                           tmp_path |-> tmp_path,
                           mktemp_stdout |-> proc.stdout,
                           start |-> Len(log) + 2, end |-> 0,
                           error |-> "", propagated |-> ""]
                /\ lpc' = "body"
    /\ UNCHANGED last
    /\ UNCHANGED remote_vars

BodyErrors == {"FileNotFoundError", "KeyboardInterrupt"}

\* lines 98-100: the with body ends, normally or with an error
ray_tmp_dir_end ==
    /\ lpc = "body"
    /\ \E how \in {"returned", "raised"}, e \in BodyErrors,
          proc \in Procs :
         LET cmds == ray_tmp_dir_exit(how, ctx.args, ctx.yaml_path,
                                      ctx.tmp_path)
             rs == [i \in 1..Len(cmds) |-> _run_command(cmds[i], proc)]
             rm_raised == \E i \in 1..Len(rs) : rs[i].raised
             logged == Append(log, [kind |-> IF how = "returned"
                                             THEN "body_returned"
                                             ELSE "body_raised",
                                    args |-> <<>>])
                         \o Spawns(cmds) IN
           /\ how = "returned" => e = "FileNotFoundError"
           /\ Len(cmds) = 0 => proc = [returncode |-> 0, stdout |-> <<>>,
                                       stderr |-> <<>>]
           /\ log' = logged
           /\ ctx' = [ctx EXCEPT !.state = how,
                                 !.end = Len(logged),
                                 !.error = IF how = "raised" THEN e ELSE "",
                                 !.propagated =
                                     IF how = "raised" THEN e
                                     ELSE IF rm_raised
                                          THEN "CalledProcessError"
                                          ELSE ""]
    /\ lpc' = "idle"
    /\ UNCHANGED last
    /\ UNCHANGED remote_vars

NextLocal ==
    \/ ray_rsync_down
    \/ ray_rsync_up
    \/ ray_down
    \/ ray_up
    \/ ray_exec
    \/ _ray_get_head_ip
    \/ ray_new_dir
    \/ ray_tmp_dir
    \/ ray_tmp_dir_end

-----------------------------------------------------------------------------
\* Specifications

Init == InitRemote /\ InitLocal

SpecRemote == Init /\ [][NextRemote]_vars

\* the wrapper runs on the submitting host, where launch_jobs never starts
InitWrapper ==
    /\ Init
    /\ job_spec_file = [exists |-> FALSE, data |-> <<>>]
    /\ temp_dir_abs = TRUE

SpecLocal == InitWrapper /\ [][NextLocal]_vars

-----------------------------------------------------------------------------
\* Properties of launch_jobs (checked under SpecRemote)

Last(seq) == seq[Len(seq)]

IsPrefix(s, t) == Len(s) <= Len(t) /\ SubSeq(t, 1, Len(s)) = s

\* the batch the spec file holds
Submitted == job_spec_file.data

\* C1: a run of launch_jobs that completes has written a results file with
\* exactly N entries, entry i being the JobReturn of the task started for
\* the i-th sweep config of the spec file, whatever order the tasks
\* finished in; a run over an empty batch that has obtained its instance
\* id does not fail, and the sequence it writes is empty.
C1_ResultsInSubmissionOrder ==
    /\ pc = "done" =>
         /\ returns_file.exists
         /\ Len(returns_file.data) = Len(Submitted)
         /\ \A i \in 1..Len(Submitted) :
              /\ returns_file.data[i].task = i
              /\ returns_file.data[i].cfg.num = Submitted[i].num
              /\ returns_file.data[i].cfg.overrides = Submitted[i].overrides
    /\ (job_spec_file.exists /\ Submitted = <<>> /\ instance_id.set) =>
         /\ pc # "failed"
         /\ returns_file.exists => returns_file.data = <<>>

\* C1 witness: a completed run of at least two jobs whose second task
\* finished before its first
C1_Witness ==
    /\ pc = "done"
    /\ Len(Submitted) >= 2
    /\ finish_order[1] = 2
    /\ returns_file.data[1].task = 1

\* C2: when one job's task raises, launch_jobs still ends with a results
\* file of N entries.
C2_FailingJobDoesNotBlockOthers ==
    ( /\ pc \in {"done", "failed"}
      /\ metadata.ok
      /\ Len(tasks) = Len(Submitted)
      /\ \E t \in 1..Len(tasks) : tasks[t].state = "raised"
      /\ \A t \in 1..Len(tasks) : tasks[t].state # "running" )
    => /\ returns_file.exists
       /\ Len(returns_file.data) = Len(Submitted)

\* C3: with the spec file absent launch_jobs fails with a missing-file
\* error, makes no instance-identity lookup, submits no job and writes no
\* results file.
C3_MissingSpecFile ==
    ~job_spec_file.exists =>
        /\ pc \in {"open", "failed"}
        /\ pc = "failed" => err = "FileNotFoundError"
        /\ lookups = 0
        /\ ~metadata.asked
        /\ Len(tasks) = 0
        /\ ~returns_file.exists
        /\ returns_writes = 0

\* C3 witness: the run over an absent spec file has failed
C3_Witness == ~job_spec_file.exists /\ pc = "failed"

\* C4: every submitted job carries the identifier
\* <instance id>_<job num>, assigned before the submission; jobs with
\* different nums have different identifiers, and every identifier
\* contains the instance id.
C4_JobIds ==
    \A t \in 1..Len(tasks) :
        /\ tasks[t].cfg.id.set
        /\ instance_id.set
        /\ IsPrefix(instance_id.value \o <<"_">>, tasks[t].cfg.id.value)
        /\ SubSeq(tasks[t].cfg.id.value, Len(instance_id.value) + 2,
                  Len(tasks[t].cfg.id.value)) = Str(tasks[t].cfg.num)
        /\ Contains(tasks[t].cfg.id.value, instance_id.value)
        /\ \A u \in 1..Len(tasks) :
             tasks[t].cfg.num # tasks[u].cfg.num
               => tasks[t].cfg.id.value # tasks[u].cfg.id.value

\* C4 witness: two submitted jobs, equal but for their nums, on a host
\* with a non-empty instance id
C4_Witness ==
    /\ Len(tasks) >= 2
    /\ tasks[1].cfg.overrides = tasks[2].cfg.overrides
    /\ tasks[1].cfg.num # tasks[2].cfg.num
    /\ instance_id.value # <<>>

\* C8: no result is retrieved before the whole batch is submitted,
\* results are retrieved in submission order, and the results file is
\* written at most once, only when every job's result has been retrieved.
C8_GlobalBarrier ==
    /\ Len(result) > 0 => Len(tasks) = Len(Submitted)
    /\ \A i \in 1..Len(result) : result[i].task = i
    /\ returns_writes <= 1
    /\ returns_file.exists <=> returns_writes = 1
    /\ returns_file.exists =>
         /\ pc = "done"
         /\ Len(result) = Len(Submitted)
         /\ returns_file.data = result
         /\ \A t \in 1..Len(tasks) : tasks[t].state = "returned"

\* C8 witness: the results file of a batch of two or more jobs is written
C8_Witness ==
    /\ returns_writes = 1
    /\ Len(result) >= 2
    /\ Len(result) = Len(Submitted)

\* C9: the instance-identity lookup is made at most once, exactly once in
\* a run that got past it, after the spec file is loaded and before any
\* job is processed; when it fails the run fails with Ray not started, no
\* job processed or submitted and no results file written.
C9_LookupFailureIsFatal ==
    /\ lookups <= 1
    /\ lookups = 1 <=> metadata.asked
    /\ lookups = 1 <=> pc \notin {"open", "lookup"} /\ job_spec_file.exists
    /\ lookups = 1 => sweep_configs # <<>> \/ Submitted = <<>>
    /\ ( \/ Len(tasks) > 0
         \/ ray_initialized
         \/ \E i \in 1..Len(sweep_configs) : sweep_configs[i].id.set )
       => lookups = 1 /\ metadata.ok
    /\ (metadata.asked /\ ~metadata.ok) =>
         /\ pc = "failed"
         /\ err = "URLError"
         /\ ~ray_initialized
         /\ sweep_dir = "None"
         /\ Len(tasks) = 0
         /\ \A i \in 1..Len(sweep_configs) : ~sweep_configs[i].id.set
         /\ ~returns_file.exists

\* C9 witness: the lookup failed in a run over a non-empty batch
C9_Witness ==
    /\ metadata.asked
    /\ ~metadata.ok
    /\ Len(sweep_configs) >= 1

-----------------------------------------------------------------------------
\* Properties of the cluster control wrapper (checked under SpecLocal)

IsSpawn(e) == e.kind = "spawn"
IsMkTemp(e) == IsSpawn(e) /\ Last(e.args) = MKTEMP_CMD
IsRmTemp(e) == IsSpawn(e) /\ IsPrefix(RM_RF, Last(e.args))

\* ray exec [--docker] <config> <command>
ExecShaped(args, docker, yaml_path) ==
    /\ Len(args) = IF docker THEN 5 ELSE 4
    /\ args[1] = RAY
    /\ args[2] = EXEC
    /\ docker => args[3] = DOCKER
    /\ args[Len(args) - 1] = yaml_path

\* C5: ray_exec, ray_tmp_dir and ray_new_dir spawn ray, exec, [--docker],
\* <config>, <command>, with the one argument --docker present exactly
\* when docker is true.
C5_ExecArgv ==
    /\ last.op \in {"ray_exec", "ray_new_dir"} =>
         ExecShaped(last.args, last.docker, last.yaml_path)
    /\ ctx.state \in {"body", "returned", "raised"} =>
         ExecShaped(log[ctx.start].args, ctx.docker, ctx.yaml_path)
    /\ ctx.state = "returned" =>
         ExecShaped(log[ctx.end].args, ctx.docker, ctx.yaml_path)

WrapperOps == {"ray_up", "ray_down", "ray_rsync_up", "ray_rsync_down",
               "ray_exec", "_ray_get_head_ip"}

\* C6: whatever the exit code, a wrapper operation spawns its process
\* once, does not raise, and returns the trimmed stdout (get-head-ip) or
\* nothing (the others).
C6_ExitCodeIgnored ==
    /\ last.op \in WrapperOps =>
         /\ last.spawns = 1
         /\ ~last.raised
         /\ last.op = "_ray_get_head_ip" =>
              /\ ~last.returns_none
              /\ last.ret = Strip(Decode(last.proc.stdout))
         /\ last.op # "_ray_get_head_ip" => last.returns_none
    /\ \A i \in 1..Len(log) :
         log[i].kind = "call" =>
            /\ i < Len(log)
            /\ IsSpawn(log[i + 1])
            /\ i + 2 <= Len(log) => ~IsSpawn(log[i + 2])

\* C6 witness: get-head-ip returned the trimmed output of a process that
\* exited with a non-zero code and wrote to stderr
C6_Witness ==
    /\ last.op = "_ray_get_head_ip"
    /\ last.proc.returncode # 0
    /\ last.proc.stderr # <<>>
    /\ last.ret # <<>>
    /\ last.ret # Decode(last.proc.stdout)

\* C7: around a with body that completes normally, mktemp is spawned once
\* and before the path is yielded, no rm -rf is spawned while the body
\* runs, and rm -rf is spawned once, after the body, naming the path that
\* mktemp printed.
C7_TmpDirLifetime ==
    /\ ctx.state = "body" =>
         /\ IsMkTemp(log[ctx.start])
         /\ log[ctx.start + 1].kind = "yield"
         /\ \A i \in ctx.start..Len(log) : ~IsRmTemp(log[i])
    /\ ctx.state = "returned" =>
         /\ {i \in ctx.start..ctx.end : IsMkTemp(log[i])} = {ctx.start}
         /\ log[ctx.start + 1] =
              [kind |-> "yield",
               args |-> <<Strip(Decode(ctx.mktemp_stdout))>>]
         /\ {i \in ctx.start..ctx.end : IsRmTemp(log[i])} = {ctx.end}
         /\ log[ctx.end - 1].kind = "body_returned"
         /\ Last(log[ctx.end].args) =
              RM_RF \o Strip(Decode(ctx.mktemp_stdout))

\* C7 witness: a with block over a non-empty path whose body called a
\* wrapper operation and returned
C7_Witness ==
    /\ ctx.state = "returned"
    /\ ctx.tmp_path # <<>>
    /\ ctx.end - ctx.start > 3

\* C10: when the with body raises, ray_tmp_dir spawns nothing more, so no
\* rm -rf follows the mktemp, and the body's error reaches the caller.
C10_NoCleanupOnError ==
    ctx.state = "raised" =>
        /\ log[ctx.end].kind = "body_raised"
        /\ \A i \in ctx.start..Len(log) : ~IsRmTemp(log[i])
        /\ ctx.propagated = ctx.error

\* C10 witness: the body of a with block over a non-empty path raised and
\* the caller went on to another operation
C10_Witness ==
    /\ ctx.state = "raised"
    /\ ctx.tmp_path # <<>>
    /\ Len(log) > ctx.end

====
